---------------------------- MODULE Spec2Model ----------------------------
(***************************************************************************)
(* Model of epub2audio.py: chapter extraction (extract_chapters), the      *)
(* retry loop (synthesize_with_retry), sanitize_filename and the           *)
(* orchestration in main.                                                  *)
(*                                                                         *)
(* The specifications share one set of variables:                          *)
(*   SpecExtract  extract_chapters, one action per loop iteration          *)
(*   SpecRetry    synthesize_with_retry against a nondeterministic backend *)
(*   Spec         main: checks, filtering, task preparation, the serial    *)
(*                loop or the thread pool, the playlist and the exit code  *)
(*   SpecFilter   the checks, filtering and task preparation of main over  *)
(*                a wider range of books and options                       *)
(*   SpecLive     Spec with the fairness of the threads' scheduling        *)
(*   SpecSanitize sanitize_filename applied to short and to long names     *)
(*   SpecUnit     one document of the reading order, its words told apart  *)
(* A specification leaves the variables of the other parts at their idle   *)
(* values.                                                                 *)
(***************************************************************************)
EXTENDS Integers, Sequences, FiniteSets, TLC

(***************************************************************************)
(* Bounds of the model.                                                    *)
(***************************************************************************)
MaxDocs == 2      \* documents in the container's collection
MaxSpine == 3     \* idrefs in the declared reading order
MaxBlocks == 2    \* markup blocks in one document
MaxRetries == 3   \* largest --max-retries
MaxWait == 3      \* largest --retry-wait, in whole time units
MaxChapters == 3  \* chapters extract_chapters returns to a full run of main
MaxBookLen == 4   \* chapters extract_chapters returns where only the filtering runs
MaxLen == 2       \* largest len(text) of a chapter and largest --min-chapter-chars
MaxStart == 2     \* largest --start
MaxLimit == 3     \* largest --limit
MaxJobs == 2      \* largest --jobs
MaxTaskRetries == 1  \* largest --max-retries in a run of main
MaxAffix == 2     \* characters before and after the filling of a name

VARIABLES
    \* ---- extract_chapters ----
    xpc,          \* position in extract_chapters: "off","build","walk","fallback","done"
    spine,        \* book.spine: idrefs; 0 does not resolve to a document
    ndocs,        \* documents 1..ndocs of the collection, in iteration order
    split_on,     \* set of heading tag names; {} is None or an empty list
    spine_order,  \* file names of the resolved spine documents (line 55)
    pos,          \* index of the next element of spine_order
    seen,         \* line 68
    order,        \* line 69
    chapters,     \* line 67; entries carry the ghost fields unit and kind
    log           \* ghost: per iteration over spine_order, the unit, whether it
                  \* was skipped, and whether find_all matched a heading in it

xvars == <<xpc, spine, ndocs, split_on, spine_order, pos, seen, order, chapters, log>>

VARIABLES
    \* ---- synthesize_with_retry ----
    rpc,          \* "off", "call" (in the backend), "sleep", "returned", "raised"
    max_retries,  \* parameter, line 178
    retry_wait,   \* parameter, line 179
    attempt,      \* line 180
    calls,        \* ghost: backend calls made
    sleeps        \* ghost: the durations passed to time.sleep, in order

rvars == <<rpc, max_retries, retry_wait, attempt, calls, sleeps>>

VARIABLES
    \* ---- main ----
    pc,           \* "off","start","extract","filter","prepare","pool","serial","finish","exit"
    args,         \* the parsed command line (line 226) and what the input holds
    mchapters,    \* main's chapters (lines 242, 251-254)
    total,        \* line 262
    files,        \* the destination paths that exist in out_dir
    preexisting,  \* ghost: files as they were when the tasks were prepared
    tasks,        \* line 265
    written,      \* line 261
    fut,          \* per task idx: its worker's position, failure count and tag result
    collected,    \* task idxs whose result the main thread has handled
    ncalls,       \* ghost: per track idx, the backend calls that have returned or raised
    playlist,     \* the paths written to playlist.m3u; NoPlaylist: not written
    exit_code     \* -1 while running, else the process exit status

mvars == <<pc, args, mchapters, total, files, preexisting, tasks, written, fut,
           collected, ncalls, playlist, exit_code>>

VARIABLES
    \* ---- sanitize_filename ----
    spc,          \* "off", "call", "returned"
    sname,        \* the parameter name, a sequence of characters
    sout          \* the value returned

svars == <<spc, sname, sout>>

VARIABLES
    \* ---- one document of the reading order (lines 76-113) ----
    upc,          \* "off", "call", "done"
    ubody,        \* the markup of the document, every word in it a different one
    utags,        \* split_on
    uprior,       \* whether a chapter was emitted before this document
    uchapters     \* the chapters appended for this document

uvars == <<upc, ubody, utags, uprior, uchapters>>

vars == <<xvars, rvars, mvars, svars, uvars>>

(***************************************************************************)
(* Generic helpers.                                                        *)
(***************************************************************************)
SeqUpTo(S, n) == UNION {[1..k -> S] : k \in 0..n}

Last(s) == s[Len(s)]

(***************************************************************************)
(* Markup.  A node is a text node (word = 0: whitespace only), a heading   *)
(* h1/h2 whose own text is `word` (0: no text), a <nav> region holding     *)
(* text, or a <div> with leaf children.                                    *)
(***************************************************************************)
HeadingTags == {"h1", "h2"}

Leaf(t, w) == [tag |-> t, word |-> w, kids |-> <<>>]

Div(ks) == [tag |-> "div", word |-> 0, kids |-> ks]

\* The pieces a document's markup is made of: plain text, whitespace, a
\* decomposed region, headings with and without text of their own, with and
\* without content after them, at the top level and inside a <div>.
Blocks ==
    {<<Leaf("text", 1)>>,
     <<Leaf("text", 0)>>,
     <<Leaf("nav", 1)>>,
     <<Leaf("h1", 1)>>,
     <<Leaf("h1", 1), Leaf("text", 1)>>,
     <<Leaf("h1", 0), Leaf("text", 1)>>,
     <<Leaf("h2", 1), Leaf("text", 1)>>,
     <<Div(<<Leaf("h1", 1)>>)>>,
     <<Div(<<Leaf("h1", 1), Leaf("text", 1)>>)>>}

RECURSIVE BodiesOf(_)
BodiesOf(n) ==
    IF n = 0 THEN {<<>>}
    ELSE {b \o rest : b \in Blocks, rest \in BodiesOf(n - 1)}

\* the markup a document can hold: at most MaxBlocks blocks in a row
Bodies == UNION {BodiesOf(n) : n \in 0..MaxBlocks}

\* <title> of a document: absent, whitespace only, or text
TitleTags == {"none", "blank", "text"}

SplitChoices == {{}, {"h1"}, {"h1", "h2"}}

(***************************************************************************)
(* html_to_text (lines 24-31).  Text is a sequence of words: get_text with *)
(* strip=True and the whitespace normalisation leave the words of the text *)
(* nodes, in document order, outside the decomposed regions.               *)
(***************************************************************************)
RECURSIVE html_to_text(_)
html_to_text(nodes) ==
    IF nodes = <<>> THEN <<>>
    ELSE LET n == Head(nodes)
             t == CASE n.tag = "nav" -> <<>>
                    [] n.tag = "div" -> html_to_text(n.kids)
                    [] OTHER -> IF n.word = 0 THEN <<>> ELSE <<n.word>>
         IN  t \o html_to_text(Tail(nodes))

\* h.get_text(strip=True) of a heading element (lines 43, 94)
get_text(h) == IF h.word = 0 THEN <<>> ELSE <<"heading", h.word>>

(***************************************************************************)
(* soup.find_all(tags) (line 80): the positions of the matching elements   *)
(* in document order; <<i>> is a top-level node, <<i, j>> a child of a div.*)
(***************************************************************************)
RECURSIVE FindKids(_, _, _, _)
FindKids(ks, i, j, tags) ==
    IF j > Len(ks) THEN <<>>
    ELSE (IF ks[j].tag \in tags THEN <<(<<i, j>>)>> ELSE <<>>)
         \o FindKids(ks, i, j + 1, tags)

RECURSIVE FindFrom(_, _, _)
FindFrom(body, i, tags) ==
    IF i > Len(body) THEN <<>>
    ELSE (IF body[i].tag \in tags THEN <<(<<i>>)>> ELSE <<>>)
         \o FindKids(body[i].kids, i, 1, tags)
         \o FindFrom(body, i + 1, tags)

find_all(body, tags) == FindFrom(body, 1, tags)

NodeAt(body, p) == IF Len(p) = 1 THEN body[p[1]] ELSE body[p[1]].kids[p[2]]

\* h.next_siblings (line 86): the nodes after h under the same parent
next_siblings(body, p) ==
    IF Len(p) = 1 THEN SubSeq(body, p[1] + 1, Len(body))
    ELSE SubSeq(body[p[1]].kids, p[2] + 1, Len(body[p[1]].kids))

\* lines 85-89: the siblings up to the first one that is a split_on element
RECURSIVE CollectSection(_, _)
CollectSection(sibs, tags) ==
    IF sibs = <<>> \/ Head(sibs).tag \in tags THEN <<>>
    ELSE <<Head(sibs)>> \o CollectSection(Tail(sibs), tags)

(***************************************************************************)
(* guess_title (lines 34-48): the <title> string stripped when it is not   *)
(* empty, else the text of the first h1, h2 (or h3) that has text, else    *)
(* the stem of the file name.  A title is a tuple; <<>> is the empty       *)
(* string.                                                                 *)
(***************************************************************************)
FirstHeadingTitle(body, hn) ==
    LET hs == find_all(body, {hn})
    IN  IF hs = <<>> THEN <<>> ELSE get_text(NodeAt(body, hs[1]))

guess_title(item) ==
    IF item.title = "text" THEN <<"title">>
    ELSE IF item.title = "blank" THEN <<>>
    ELSE IF FirstHeadingTitle(item.body, "h1") # <<>>
         THEN FirstHeadingTitle(item.body, "h1")
    ELSE IF FirstHeadingTitle(item.body, "h2") # <<>>
         THEN FirstHeadingTitle(item.body, "h2")
    ELSE <<"stem", item.file_name>>

Items(f) == {[file_name |-> f, title |-> t, body |-> b] : t \in TitleTags, b \in Bodies}

(***************************************************************************)
(* extract_chapters, lines 83-100: the loop over the headings of one       *)
(* document.  st is [chapters, order]; i counts the headings from 1.       *)
(***************************************************************************)
Chapter(o, t, x, u, k) == [order |-> o, title |-> t, text |-> x, unit |-> u, kind |-> k]

\* mutant: the order counter is not advanced after a section (line 100 lost)
SectionStepNoIncrement(st, item, hs, i, tags) ==
    LET h == NodeAt(item.body, hs[i])
        text == html_to_text(CollectSection(next_siblings(item.body, hs[i]), tags))
        title == IF get_text(h) # <<>> THEN get_text(h) ELSE <<"section", i>>
    IN  IF text = <<>> THEN st
        ELSE [chapters |-> Append(st.chapters,
                                  Chapter(st.order, title, text, item.file_name, "section")),
              order |-> st.order]

\* mutant: a section with empty text is emitted too (lines 92-93 lost)
SectionStepKeepEmpty(st, item, hs, i, tags) ==
    LET h == NodeAt(item.body, hs[i])
        text == html_to_text(CollectSection(next_siblings(item.body, hs[i]), tags))
        title == IF get_text(h) # <<>> THEN get_text(h) ELSE <<"section", i>>
    IN  [chapters |-> Append(st.chapters,
                             Chapter(st.order, title, text, item.file_name, "section")),
         order |-> st.order + 1]

SectionStep(st, item, hs, i, tags) ==
    LET h == NodeAt(item.body, hs[i])
        text == html_to_text(CollectSection(next_siblings(item.body, hs[i]), tags))
        title == IF get_text(h) # <<>> THEN get_text(h) ELSE <<"section", i>>
    IN  IF text = <<>> THEN st
        ELSE [chapters |-> Append(st.chapters,
                                  Chapter(st.order, title, text, item.file_name, "section")),
              order |-> st.order + 1]

RECURSIVE SplitLoop(_, _, _, _, _)
SplitLoop(st, item, hs, i, tags) ==
    IF i > Len(hs) THEN st
    ELSE SplitLoop(SectionStep(st, item, hs, i, tags), item, hs, i + 1, tags)

\* line 102: the test that decides whether the document is done after the loop
SectionsCreated(st) ==
    st.order > 0 /\ st.chapters # <<>> /\ Last(st.chapters).title # <<>>

\* lines 105-113: the whole document as one chapter
WholeUnit(st, item) ==
    [chapters |-> Append(st.chapters,
                         Chapter(st.order, guess_title(item), html_to_text(item.body),
                                 item.file_name, "whole")),
     order |-> st.order + 1]

\* lines 76-113: one document of the reading order
ProcessItem(st, item, tags) ==
    LET hs == IF tags # {} THEN find_all(item.body, tags) ELSE <<>>
        split == IF hs # <<>> THEN SplitLoop(st, item, hs, 1, tags) ELSE st
    IN  IF hs # <<>> /\ SectionsCreated(split) THEN split
        ELSE WholeUnit(split, item)

(***************************************************************************)
(* One iteration of the loop of line 70 on a document whose words are all  *)
(* different, after no chapter or after one titled chapter.                *)
(***************************************************************************)
\* the body with word 10*i in top-level node i and 10*i + j in its child j
Relabel(body) ==
    [i \in DOMAIN body |->
        [tag |-> body[i].tag,
         word |-> IF body[i].word = 0 THEN 0 ELSE 10 * i,
         kids |-> [j \in DOMAIN body[i].kids |->
                     [tag |-> body[i].kids[j].tag,
                      word |-> IF body[i].kids[j].word = 0 THEN 0 ELSE 10 * i + j,
                      kids |-> <<>>]]]]

\* chapters and order when the document is reached
PriorState(prior) ==
    IF prior THEN [chapters |-> <<Chapter(0, <<"title">>, <<1>>, 0, "whole")>>, order |-> 1]
    ELSE [chapters |-> <<>>, order |-> 0]

UIdle == upc = "off" /\ ubody = <<>> /\ utags = {} /\ uprior = FALSE /\ uchapters = <<>>

InitUnit ==
    /\ upc = "call"
    /\ ubody \in {Relabel(b) : b \in Bodies}
    /\ utags \in SplitChoices \ {{}}
    /\ uprior \in BOOLEAN
    /\ uchapters = <<>>

\* lines 76-113 for the document
UnitCall ==
    /\ upc = "call"
    /\ LET st == ProcessItem(PriorState(uprior),
                             [file_name |-> 1, title |-> "none", body |-> ubody], utags)
       IN  uchapters' = SubSeq(st.chapters, Len(PriorState(uprior).chapters) + 1,
                               Len(st.chapters))
    /\ upc' = "done"
    /\ UNCHANGED <<ubody, utags, uprior>>
    /\ UNCHANGED <<xvars, rvars, mvars, svars>>

NextUnit == UnitCall

(***************************************************************************)
(* extract_chapters as a state machine.                                    *)
(***************************************************************************)
XIdle ==
    /\ xpc = "off" /\ spine = <<>> /\ ndocs = 0 /\ split_on = {}
    /\ spine_order = <<>> /\ pos = 0 /\ seen = {} /\ order = 0
    /\ chapters = <<>> /\ log = <<>>

InitExtract ==
    /\ xpc = "build"
    /\ ndocs \in 0..MaxDocs
    /\ spine \in SeqUpTo(0..ndocs, MaxSpine)
    /\ split_on \in SplitChoices
    /\ spine_order = <<>> /\ pos = 1 /\ seen = {} /\ order = 0
    /\ chapters = <<>> /\ log = <<>>

\* lines 55-69: the idrefs that resolve to a document, in spine order
BuildSpineOrder ==
    /\ xpc = "build"
    /\ spine_order' = SelectSeq(spine, LAMBDA r : r \in 1..ndocs)
    /\ xpc' = "walk"
    /\ UNCHANGED <<spine, ndocs, split_on, pos, seen, order, chapters, log>>
    /\ UNCHANGED <<rvars, mvars, svars, uvars>>

\* lines 70-73: a file name that is not a document or was seen is skipped
WalkSkip ==
    /\ xpc = "walk" /\ pos <= Len(spine_order)
    /\ spine_order[pos] \notin 1..ndocs \/ spine_order[pos] \in seen
    /\ pos' = pos + 1
    /\ log' = Append(log, [unit |-> spine_order[pos], skipped |-> TRUE, matched |-> FALSE])
    /\ UNCHANGED <<xpc, spine, ndocs, split_on, spine_order, seen, order, chapters>>
    /\ UNCHANGED <<rvars, mvars, svars, uvars>>

\* lines 70-113: a document met for the first time.  The container is
\* read-only and a document's markup is read in one iteration only, so the
\* markup is drawn where it is read.
WalkUnit ==
    /\ xpc = "walk" /\ pos <= Len(spine_order)
    /\ spine_order[pos] \in 1..ndocs /\ spine_order[pos] \notin seen
    /\ \E item \in Items(spine_order[pos]) :
         LET st == ProcessItem([chapters |-> chapters, order |-> order], item, split_on)
         IN  /\ chapters' = st.chapters
             /\ order' = st.order
             /\ log' = Append(log,
                   [unit |-> item.file_name, skipped |-> FALSE,
                    matched |-> split_on # {} /\ find_all(item.body, split_on) # <<>>])
    /\ seen' = seen \cup {spine_order[pos]}
    /\ pos' = pos + 1
    /\ UNCHANGED <<xpc, spine, ndocs, split_on, spine_order>>
    /\ UNCHANGED <<rvars, mvars, svars, uvars>>

\* line 116 with chapters: the reading order gave chapters, return them
WalkDone ==
    /\ xpc = "walk" /\ pos > Len(spine_order)
    /\ chapters # <<>>
    /\ xpc' = "done"
    /\ UNCHANGED <<spine, ndocs, split_on, spine_order, pos, seen, order, chapters, log>>
    /\ UNCHANGED <<rvars, mvars, svars, uvars>>

\* lines 116-122: no chapter from the reading order, iterate the documents
WalkEmpty ==
    /\ xpc = "walk" /\ pos > Len(spine_order)
    /\ chapters = <<>>
    /\ xpc' = "fallback"
    /\ pos' = 1
    /\ UNCHANGED <<spine, ndocs, split_on, spine_order, seen, order, chapters, log>>
    /\ UNCHANGED <<rvars, mvars, svars, uvars>>

\* mutant: the raw-collection loop splits a document on its headings as the
\* walk of the reading order does
RawUnitSplit ==
    /\ xpc = "fallback" /\ pos <= ndocs
    /\ \E item \in Items(pos) :
         LET st == ProcessItem([chapters |-> chapters, order |-> pos - 1], item, split_on)
         IN  /\ chapters' = st.chapters
             /\ order' = pos - 1
    /\ pos' = pos + 1
    /\ UNCHANGED <<xpc, spine, ndocs, split_on, spine_order, seen, log>>
    /\ UNCHANGED <<rvars, mvars, svars, uvars>>

\* lines 117-122: one document of docs.values(); order is the enumerate index
RawUnit ==
    /\ xpc = "fallback" /\ pos <= ndocs
    /\ \E item \in Items(pos) :
         chapters' = Append(chapters,
                            Chapter(pos - 1, guess_title(item), html_to_text(item.body),
                                    item.file_name, "raw"))
    /\ order' = pos - 1
    /\ pos' = pos + 1
    /\ UNCHANGED <<xpc, spine, ndocs, split_on, spine_order, seen, log>>
    /\ UNCHANGED <<rvars, mvars, svars, uvars>>

\* line 124 after the fallback loop
RawDone ==
    /\ xpc = "fallback" /\ pos > ndocs
    /\ xpc' = "done"
    /\ UNCHANGED <<spine, ndocs, split_on, spine_order, pos, seen, order, chapters, log>>
    /\ UNCHANGED <<rvars, mvars, svars, uvars>>

NextExtract ==
    \/ BuildSpineOrder
    \/ WalkSkip
    \/ WalkUnit
    \/ WalkDone
    \/ WalkEmpty
    \/ RawUnit
    \/ RawDone


(***************************************************************************)
(* synthesize_with_retry (lines 167-192).                                  *)
(***************************************************************************)
RECURSIVE Pow2(_)
Pow2(n) == IF n = 0 THEN 1 ELSE 2 * Pow2(n - 1)

\* mutant: the exponent is the attempt number, not attempt - 1
BackoffWaitShifted(wait, att) == wait * Pow2(att)

\* line 192: the backoff before the next attempt
BackoffWait(wait, att) == wait * Pow2(att - 1)

\* mutant: one more retry than max_retries before the exception is re-raised
RetriesExhaustedLate(att, maxr) == att > maxr + 1

\* line 190: the failure count after which the exception is re-raised
RetriesExhausted(att, maxr) == att > maxr

RIdle ==
    /\ rpc = "off" /\ max_retries = 0 /\ retry_wait = 0
    /\ attempt = 0 /\ calls = 0 /\ sleeps = <<>>

\* lines 180-186: entered, first backend call under way
InitRetry ==
    /\ rpc = "call"
    /\ max_retries \in 0..MaxRetries
    /\ retry_wait \in 0..MaxWait
    /\ attempt = 0 /\ calls = 1 /\ sleeps = <<>>

\* lines 183-187: the backend call returns
BackendSucceeds ==
    /\ rpc = "call"
    /\ rpc' = "returned"
    /\ UNCHANGED <<max_retries, retry_wait, attempt, calls, sleeps>>
    /\ UNCHANGED <<xvars, mvars, svars, uvars>>

\* lines 188-192: the backend call raises and a retry is left
BackendFailsRetry ==
    /\ rpc = "call"
    /\ ~RetriesExhausted(attempt + 1, max_retries)
    /\ attempt' = attempt + 1
    /\ sleeps' = Append(sleeps, BackoffWait(retry_wait, attempt + 1))
    /\ rpc' = "sleep"
    /\ UNCHANGED <<max_retries, retry_wait, calls>>
    /\ UNCHANGED <<xvars, mvars, svars, uvars>>

\* lines 188-191: the backend call raises and the retries are used up
BackendFailsRaise ==
    /\ rpc = "call"
    /\ RetriesExhausted(attempt + 1, max_retries)
    /\ attempt' = attempt + 1
    /\ rpc' = "raised"
    /\ UNCHANGED <<max_retries, retry_wait, calls, sleeps>>
    /\ UNCHANGED <<xvars, mvars, svars, uvars>>

\* line 192 returns, lines 181-186: the next backend call
SleepEnds ==
    /\ rpc = "sleep"
    /\ calls' = calls + 1
    /\ rpc' = "call"
    /\ UNCHANGED <<max_retries, retry_wait, attempt, sleeps>>
    /\ UNCHANGED <<xvars, mvars, svars, uvars>>

NextRetry ==
    \/ BackendSucceeds
    \/ BackendFailsRetry
    \/ BackendFailsRaise
    \/ SleepEnds

(***************************************************************************)
(* sanitize_filename (lines 18-21).  A name is a sequence of characters.   *)
(***************************************************************************)
Whitespace == {" ", "\t", "\n"}

BadChars == {"\\", "/", ":", "*", "?", "\"", "<", ">", "|"}

SanitizeMaxLen == 150

\* re.sub(r"\s+", " ", name): every run of whitespace becomes one space (the
\* last character of a run stays, as a space)
CollapseWhitespace(name) ==
    LET kept == SelectSeq([i \in 1..Len(name) |-> i],
                          LAMBDA i : ~(name[i] \in Whitespace /\ i < Len(name)
                                       /\ name[i + 1] \in Whitespace))
    IN  [k \in 1..Len(kept) |-> IF name[kept[k]] \in Whitespace THEN " "
                                ELSE name[kept[k]]]

\* str.strip(), in its two halves
LStrip(name) ==
    LET solid == {i \in DOMAIN name : name[i] \notin Whitespace}
    IN  IF solid = {} THEN <<>>
        ELSE SubSeq(name, CHOOSE i \in solid : \A j \in solid : i <= j, Len(name))

RStrip(name) ==
    LET solid == {i \in DOMAIN name : name[i] \notin Whitespace}
    IN  IF solid = {} THEN <<>>
        ELSE SubSeq(name, 1, CHOOSE i \in solid : \A j \in solid : i >= j)

Strip(name) == CHOOSE r \in {RStrip(l) : l \in {LStrip(name)}} : TRUE

\* re.sub(r"[\\/:*?\"<>|]", "_", name)
ReplaceBadChars(name) ==
    [i \in DOMAIN name |-> IF name[i] \in BadChars THEN "_" ELSE name[i]]

Untitled == <<"u", "n", "t", "i", "t", "l", "e", "d">>

\* name[:150] or "untitled" (line 21)
CutOrUntitled(clean) ==
    LET cut == SubSeq(clean, 1, IF Len(clean) < SanitizeMaxLen THEN Len(clean)
                                ELSE SanitizeMaxLen)
    IN  IF cut = <<>> THEN Untitled ELSE cut

\* mutant: the name is not cut (the slice of line 21 lost)
sanitize_filenameNoCut(name) ==
    CHOOSE r \in {IF clean = <<>> THEN Untitled ELSE clean :
                    clean \in {ReplaceBadChars(t) :
                        t \in {Strip(c) :
                            c \in {CollapseWhitespace(n) : n \in {name}}}}} : TRUE

\* lines 19-21, each step applied to the value of the step before
sanitize_filename(name) ==
    CHOOSE r \in {CutOrUntitled(clean) :
                    clean \in {ReplaceBadChars(t) :
                        t \in {Strip(c) :
                            c \in {CollapseWhitespace(n) : n \in {name}}}}} : TRUE

\* The names sanitize_filename is applied to: up to MaxAffix characters, a
\* filling of letters that is empty or brings the name to about the length
\* of the cut, and up to MaxAffix characters again.
NameChars == {"a", " ", "\t", "/"}

Fill(n) == [i \in 1..n |-> "a"]

FillLens == {0} \cup ((SanitizeMaxLen - 2)..(SanitizeMaxLen + 1))

Names ==
    {p \o Fill(n) \o q : p \in SeqUpTo(NameChars, MaxAffix), n \in FillLens,
                          q \in SeqUpTo(NameChars, MaxAffix)}

SIdle == spc = "off" /\ sname = <<>> /\ sout = <<>>

InitSanitize == spc = "call" /\ sname \in Names /\ sout = <<>>

\* lines 18-21
SanitizeCall ==
    /\ spc = "call"
    /\ sout' = sanitize_filename(sname)
    /\ spc' = "returned"
    /\ UNCHANGED sname
    /\ UNCHANGED <<xvars, rvars, mvars, uvars>>

NextSanitize == SanitizeCall

(***************************************************************************)
(* main (lines 202-321).                                                   *)
(***************************************************************************)
\* the playlist is written with at least one entry (lines 315-316)
NoPlaylist == <<>>

\* --limit: None is the empty tuple, a number n is <<n>>
None == <<>>

Some(n) == <<n>>

\* what extract_chapters can return to main: chapters of the given kinds
\* (title, length of the text) with order the list position (C6)
WithOrder(ks) ==
    [i \in DOMAIN ks |-> [order |-> i - 1, title |-> ks[i].title, text_len |-> ks[i].text_len]]

BookChapters(kinds, n) == {WithOrder(ks) : ks \in SeqUpTo(kinds, n)}

\* line 251
MinCharsFilter(cs, min_chars) == SelectSeq(cs, LAMBDA c : c.text_len >= min_chars)

\* chapters[start:] (line 252), as Python slices
SliceFrom(cs, start) ==
    LET from == IF start >= 0 THEN start
                ELSE IF Len(cs) + start > 0 THEN Len(cs) + start ELSE 0
    IN  SubSeq(cs, from + 1, Len(cs))

\* chapters[:limit] (lines 253-254), as Python slices
SliceTo(cs, limit) ==
    IF limit = None THEN cs
    ELSE LET n == limit[1]
             to == IF n >= 0 THEN (IF n < Len(cs) THEN n ELSE Len(cs))
                   ELSE IF Len(cs) + n > 0 THEN Len(cs) + n ELSE 0
         IN  SubSeq(cs, 1, to)

\* mutant: the list is sliced before the short chapters are dropped
FilterChaptersSliceFirst(cs, a) ==
    MinCharsFilter(SliceTo(SliceFrom(cs, a.start), a.limit), a.min_chapter_chars)

\* lines 250-254
FilterChapters(cs, a) ==
    SliceTo(SliceFrom(MinCharsFilter(cs, a.min_chapter_chars), a.start), a.limit)

\* line 267: ch["title"] or f"Chapter {idx}"
TitleOf(ch, idx) == IF ch.title # <<>> THEN ch.title ELSE <<"Chapter", " ", ToString(idx)>>

\* mutant: the file name is made of the title alone
OutPathTitleOnly(ch, idx) == [idx |-> 0, name |-> sanitize_filename(TitleOf(ch, idx))]

\* lines 268-270: out_dir / f"{idx:03d} - {safe_title}.mp3"
OutPath(ch, idx) == [idx |-> idx, name |-> sanitize_filename(TitleOf(ch, idx))]

\* str(n) for n >= 0, as a sequence of characters
RECURSIVE Digits(_)
Digits(n) == IF n < 10 THEN <<ToString(n)>> ELSE Append(Digits(n \div 10), ToString(n % 10))

\* f"{idx:03d}": zero-padded to at least three characters
Pad3(n) == [i \in 1..(IF Len(Digits(n)) < 3 THEN 3 - Len(Digits(n)) ELSE 0) |-> "0"]
           \o Digits(n)

\* line 269: the file name of a path, as a sequence of characters
FileName(p) == Pad3(p.idx) \o <<" ", "-", " ">> \o p.name \o <<".", "m", "p", "3">>

\* mutant: a chapter whose file exists gets a task too (line 274 lost)
RECURSIVE PrepareTasksNoSkip(_, _, _)
PrepareTasksNoSkip(cs, idx, existing) ==
    IF idx > Len(cs) THEN <<>>
    ELSE <<[idx |-> idx, title |-> TitleOf(cs[idx], idx),
            text_len |-> cs[idx].text_len, out_path |-> OutPath(cs[idx], idx)]>>
         \o PrepareTasksNoSkip(cs, idx + 1, existing)

\* lines 266-275: the tasks, in chapter order, of the chapters without a file
RECURSIVE PrepareTasks(_, _, _)
PrepareTasks(cs, idx, existing) ==
    IF idx > Len(cs) THEN <<>>
    ELSE (IF OutPath(cs[idx], idx) \in existing THEN <<>>
          ELSE <<[idx |-> idx, title |-> TitleOf(cs[idx], idx),
                  text_len |-> cs[idx].text_len, out_path |-> OutPath(cs[idx], idx)]>>)
         \o PrepareTasks(cs, idx + 1, existing)

\* lines 271-274: the paths that exist already, in chapter order
RECURSIVE PrepareWritten(_, _, _)
PrepareWritten(cs, idx, existing) ==
    IF idx > Len(cs) THEN <<>>
    ELSE (IF OutPath(cs[idx], idx) \in existing THEN <<OutPath(cs[idx], idx)>> ELSE <<>>)
         \o PrepareWritten(cs, idx + 1, existing)

\* mutant: the pool gets one thread per task, whatever --jobs is
MaxWorkersPerTask(jobs, ntasks) == IF ntasks > 1 THEN ntasks ELSE 1

\* line 297
MaxWorkers(jobs, ntasks) ==
    LET m == IF jobs < ntasks THEN jobs ELSE ntasks
    IN  IF m > 1 THEN m ELSE 1

TaskIdxs == {tasks[k].idx : k \in DOMAIN tasks}

TaskOf(i) == CHOOSE t \in {tasks[k] : k \in DOMAIN tasks} : t.idx = i

\* workers inside worker(): in the backend, in the backoff sleep, or tagging
Active(i) == fut[i].st \in {"running", "sleeping", "tagging"}

Settled(i) == fut[i].st \in {"done", "failed"}

MIdle ==
    /\ pc = "off" /\ args = <<>> /\ mchapters = <<>> /\ total = 0
    /\ files = {} /\ preexisting = {} /\ tasks = <<>> /\ written = <<>>
    /\ fut = <<>> /\ collected = {} /\ ncalls = <<>>
    /\ playlist = NoPlaylist /\ exit_code = -1

\* the state after parse_args (line 226); book is what extract_chapters
\* returns for the input file
InitArgs(books, mins, starts, limits, jobss, retriess) ==
    /\ pc = "start"
    /\ args \in [epub_exists : BOOLEAN, book : books, min_chapter_chars : mins,
                 start : starts, limit : limits, jobs : jobss, max_retries : retriess]
    /\ mchapters = <<>> /\ total = 0
    /\ files = {} /\ preexisting = {} /\ tasks = <<>> /\ written = <<>>
    /\ fut = <<>> /\ collected = {} /\ ncalls = <<>>
    /\ playlist = NoPlaylist /\ exit_code = -1

\* lines 228-231
CheckInput ==
    /\ pc = "start"
    /\ IF ~args.epub_exists
       THEN pc' = "exit" /\ exit_code' = 1
       ELSE pc' = "extract" /\ UNCHANGED exit_code
    /\ UNCHANGED <<args, mchapters, total, files, preexisting, tasks, written, fut,
                   collected, playlist>>
    /\ UNCHANGED ncalls
    /\ UNCHANGED <<xvars, rvars, svars, uvars>>

\* lines 242-245
Extract ==
    /\ pc = "extract"
    /\ mchapters' = args.book
    /\ IF args.book = <<>>
       THEN pc' = "exit" /\ exit_code' = 2
       ELSE pc' = "filter" /\ UNCHANGED exit_code
    /\ UNCHANGED <<args, total, files, preexisting, tasks, written, fut, collected,
                   playlist>>
    /\ UNCHANGED ncalls
    /\ UNCHANGED <<xvars, rvars, svars, uvars>>

\* lines 250-258
Filter ==
    /\ pc = "filter"
    /\ mchapters' = FilterChapters(mchapters, args)
    /\ IF FilterChapters(mchapters, args) = <<>>
       THEN pc' = "exit" /\ exit_code' = 3
       ELSE pc' = "prepare" /\ UNCHANGED exit_code
    /\ UNCHANGED <<args, total, files, preexisting, tasks, written, fut, collected,
                   playlist>>
    /\ UNCHANGED ncalls
    /\ UNCHANGED <<xvars, rvars, svars, uvars>>

\* lines 260-275 and the branch at line 296.  The output directory is first
\* read here: any set of the destination paths may exist in it.
Prepare ==
    /\ pc = "prepare"
    /\ \E existing \in SUBSET {OutPath(mchapters[i], i) : i \in DOMAIN mchapters} :
         LET ts == PrepareTasks(mchapters, 1, existing)
         IN  /\ files' = existing
             /\ preexisting' = existing
             /\ written' = PrepareWritten(mchapters, 1, existing)
             /\ tasks' = ts
             /\ fut' = [i \in {ts[k].idx : k \in DOMAIN ts} |->
                          [st |-> "queued", attempt |-> 0, tag |-> "none"]]
             /\ pc' = IF args.jobs > 1 /\ ts # <<>> THEN "pool" ELSE "serial"
    /\ total' = Len(mchapters)
    /\ ncalls' = [i \in DOMAIN mchapters |-> 0]
    /\ UNCHANGED <<args, mchapters, collected, playlist, exit_code>>
    /\ UNCHANGED <<xvars, rvars, svars, uvars>>

\* lines 298-299: a pool thread takes the oldest queued task
PoolStart(i) ==
    /\ pc = "pool"
    /\ i \in TaskIdxs /\ fut[i].st = "queued"
    /\ \A j \in TaskIdxs : j < i => fut[j].st # "queued"
    /\ Cardinality({j \in TaskIdxs : Active(j)}) < MaxWorkers(args.jobs, Len(tasks))
    /\ fut' = [fut EXCEPT ![i].st = "running"]
    /\ UNCHANGED <<pc, args, mchapters, total, files, preexisting, tasks, written,
                   collected, playlist, exit_code>>
    /\ UNCHANGED ncalls
    /\ UNCHANGED <<xvars, rvars, svars, uvars>>

\* lines 309-311: the serial loop calls worker for the next task
SerialStart(i) ==
    /\ pc = "serial"
    /\ i \in TaskIdxs /\ fut[i].st = "queued"
    /\ \A j \in TaskIdxs : j < i => j \in collected
    /\ fut' = [fut EXCEPT ![i].st = "running"]
    /\ UNCHANGED <<pc, args, mchapters, total, files, preexisting, tasks, written,
                   collected, playlist, exit_code>>
    /\ UNCHANGED ncalls
    /\ UNCHANGED <<xvars, rvars, svars, uvars>>

\* lines 182-187: the backend call of worker i returns; the file is written
WorkerCallOk(i) ==
    /\ pc \in {"pool", "serial"}
    /\ i \in TaskIdxs /\ fut[i].st = "running"
    /\ files' = files \cup {TaskOf(i).out_path}
    /\ fut' = [fut EXCEPT ![i].st = "tagging"]
    /\ ncalls' = [ncalls EXCEPT ![i] = @ + 1]
    /\ UNCHANGED <<pc, args, mchapters, total, preexisting, tasks, written, collected,
                   playlist, exit_code>>
    /\ UNCHANGED <<xvars, rvars, svars, uvars>>

\* lines 188-192 (and 160-164, 153-157): the backend call of worker i raises.
\* What it had written of the file stays: nothing, or a part of the audio.
WorkerCallFail(i) ==
    /\ pc \in {"pool", "serial"}
    /\ i \in TaskIdxs /\ fut[i].st = "running"
    /\ \E partial \in BOOLEAN :
         files' = IF partial THEN files \cup {TaskOf(i).out_path}
                  ELSE files \ {TaskOf(i).out_path}
    /\ fut' = [fut EXCEPT ![i].attempt = @ + 1,
                          ![i].st = IF RetriesExhausted(fut[i].attempt + 1, args.max_retries)
                                    THEN "failed" ELSE "sleeping"]
    /\ ncalls' = [ncalls EXCEPT ![i] = @ + 1]
    /\ UNCHANGED <<pc, args, mchapters, total, preexisting, tasks, written, collected,
                   playlist, exit_code>>
    /\ UNCHANGED <<xvars, rvars, svars, uvars>>

\* line 192 returns and the loop calls the backend again
WorkerWake(i) ==
    /\ pc \in {"pool", "serial"}
    /\ i \in TaskIdxs /\ fut[i].st = "sleeping"
    /\ fut' = [fut EXCEPT ![i].st = "running"]
    /\ UNCHANGED <<pc, args, mchapters, total, files, preexisting, tasks, written,
                   collected, playlist, exit_code>>
    /\ UNCHANGED ncalls
    /\ UNCHANGED <<xvars, rvars, svars, uvars>>

\* mutant: a failure to write the tags leaves worker as an exception
WorkerTagRaises(i) ==
    /\ pc \in {"pool", "serial"}
    /\ i \in TaskIdxs /\ fut[i].st = "tagging"
    /\ \E saved \in BOOLEAN :
         fut' = [fut EXCEPT ![i].st = IF saved THEN "done" ELSE "failed",
                            ![i].tag = IF saved THEN "written" ELSE "failed"]
    /\ UNCHANGED <<pc, args, mchapters, total, files, preexisting, tasks, written,
                   collected, playlist, exit_code>>
    /\ UNCHANGED ncalls
    /\ UNCHANGED <<xvars, rvars, svars, uvars>>

\* lines 293-294 (127-137): the tags are written, or the failure to write
\* them is swallowed, and worker returns out_path
WorkerTag(i) ==
    /\ pc \in {"pool", "serial"}
    /\ i \in TaskIdxs /\ fut[i].st = "tagging"
    /\ \E saved \in BOOLEAN :
         fut' = [fut EXCEPT ![i].st = "done",
                            ![i].tag = IF saved THEN "written" ELSE "failed"]
    /\ UNCHANGED <<pc, args, mchapters, total, files, preexisting, tasks, written,
                   collected, playlist, exit_code>>
    /\ UNCHANGED ncalls
    /\ UNCHANGED <<xvars, rvars, svars, uvars>>

\* mutant: the path of a failed task is appended too
CollectFailedToo(i) ==
    /\ pc \in {"pool", "serial"}
    /\ i \in TaskIdxs /\ Settled(i) /\ i \notin collected
    /\ written' = Append(written, TaskOf(i).out_path)
    /\ collected' = collected \cup {i}
    /\ UNCHANGED <<pc, args, mchapters, total, files, preexisting, tasks, fut,
                   playlist, exit_code>>
    /\ UNCHANGED ncalls
    /\ UNCHANGED <<xvars, rvars, svars, uvars>>

\* mutant: the path is appended to the list as it was before the tasks ran
CollectStale(i) ==
    /\ pc \in {"pool", "serial"}
    /\ i \in TaskIdxs /\ Settled(i) /\ i \notin collected
    /\ written' = IF fut[i].st = "done"
                  THEN Append(PrepareWritten(mchapters, 1, preexisting), TaskOf(i).out_path)
                  ELSE written
    /\ collected' = collected \cup {i}
    /\ UNCHANGED <<pc, args, mchapters, total, files, preexisting, tasks, fut,
                   playlist, exit_code>>
    /\ UNCHANGED ncalls
    /\ UNCHANGED <<xvars, rvars, svars, uvars>>

\* lines 300-306 and 310-313: the main thread takes the result of a settled
\* task: the path is appended to written, or the failure is printed
Collect(i) ==
    /\ pc \in {"pool", "serial"}
    /\ i \in TaskIdxs /\ Settled(i) /\ i \notin collected
    /\ written' = IF fut[i].st = "done" THEN Append(written, TaskOf(i).out_path)
                  ELSE written
    /\ collected' = collected \cup {i}
    /\ UNCHANGED <<pc, args, mchapters, total, files, preexisting, tasks, fut,
                   playlist, exit_code>>
    /\ UNCHANGED ncalls
    /\ UNCHANGED <<xvars, rvars, svars, uvars>>

\* mutant: main goes on once the results that are ready have been handled
TasksHandledEarly ==
    /\ pc \in {"pool", "serial"}
    /\ \A i \in TaskIdxs : Settled(i) => i \in collected
    /\ pc' = "finish"
    /\ UNCHANGED <<args, mchapters, total, files, preexisting, tasks, written, fut,
                   collected, playlist, exit_code>>
    /\ UNCHANGED ncalls
    /\ UNCHANGED <<xvars, rvars, svars, uvars>>

\* the for loops at lines 300 and 309 end: every task has been handled
TasksHandled ==
    /\ pc \in {"pool", "serial"}
    /\ collected = TaskIdxs
    /\ pc' = "finish"
    /\ UNCHANGED <<args, mchapters, total, files, preexisting, tasks, written, fut,
                   collected, playlist, exit_code>>
    /\ UNCHANGED ncalls
    /\ UNCHANGED <<xvars, rvars, svars, uvars>>

\* lines 195-199: the names of the entries, in the order of the list
build_playlist(entries) == entries

\* mutant: the empty written list is not detected (lines 319-321 lost)
FinishAlwaysZero ==
    /\ pc = "finish"
    /\ playlist' = build_playlist(written) /\ exit_code' = 0
    /\ pc' = "exit"
    /\ UNCHANGED <<args, mchapters, total, files, preexisting, tasks, written, fut,
                   collected>>
    /\ UNCHANGED ncalls
    /\ UNCHANGED <<xvars, rvars, svars, uvars>>

\* lines 315-321
Finish ==
    /\ pc = "finish"
    /\ IF written # <<>>
       THEN playlist' = build_playlist(written) /\ exit_code' = 0
       ELSE exit_code' = 4 /\ UNCHANGED playlist
    /\ pc' = "exit"
    /\ UNCHANGED <<args, mchapters, total, files, preexisting, tasks, written, fut,
                   collected>>
    /\ UNCHANGED ncalls
    /\ UNCHANGED <<xvars, rvars, svars, uvars>>

NextMain ==
    \/ CheckInput
    \/ Extract
    \/ Filter
    \/ Prepare
    \/ \E i \in 1..MaxChapters : PoolStart(i)
    \/ \E i \in 1..MaxChapters : SerialStart(i)
    \/ \E i \in 1..MaxChapters : WorkerCallOk(i)
    \/ \E i \in 1..MaxChapters : WorkerCallFail(i)
    \/ \E i \in 1..MaxChapters : WorkerWake(i)
    \/ \E i \in 1..MaxChapters : WorkerTag(i)
    \/ \E i \in 1..MaxChapters : Collect(i)
    \/ TasksHandled
    \/ Finish

\* a run of main: chapters are long and titled, or empty and untitled
MainBooks ==
    BookChapters({[title |-> <<"a">>, text_len |-> MaxLen],
                  [title |-> <<>>, text_len |-> 0]}, MaxChapters)

InitMain ==
    /\ InitArgs(MainBooks, {0, MaxLen}, {0, MaxStart}, {None, Some(MaxLimit - 1)},
                1..MaxJobs, 0..MaxTaskRetries)
    /\ XIdle /\ RIdle /\ SIdle /\ UIdle

(***************************************************************************)
(* Specifications.                                                         *)
(***************************************************************************)
\* the filtering and task preparation of main over every chapter length and
\* every --min-chapter-chars, --start and --limit
FilterBooks == BookChapters([title : {<<"a">>}, text_len : 0..MaxLen], MaxBookLen)

InitFilter ==
    /\ InitArgs(FilterBooks, 0..MaxLen, 0..MaxStart,
                {None} \cup {Some(n) : n \in 0..MaxLimit}, {1}, {0})
    /\ XIdle /\ RIdle /\ SIdle /\ UIdle

NextFilter ==
    \/ CheckInput
    \/ Extract
    \/ Filter
    \/ Prepare

InitX == InitExtract /\ RIdle /\ MIdle /\ SIdle /\ UIdle

InitR == InitRetry /\ XIdle /\ MIdle /\ SIdle /\ UIdle

InitS == InitSanitize /\ XIdle /\ RIdle /\ MIdle /\ UIdle

InitU == InitUnit /\ XIdle /\ RIdle /\ MIdle /\ SIdle

SpecExtract == InitX /\ [][NextExtract]_vars

SpecRetry == InitR /\ [][NextRetry]_vars

Spec == InitMain /\ [][NextMain]_vars

SpecFilter == InitFilter /\ [][NextFilter]_vars

\* Scheduling: the main thread keeps running, the executor hands a queued
\* task to a free thread, a backend call returns or raises, a sleep ends and
\* the tag write ends.
MainFairness ==
    /\ WF_vars(CheckInput \/ Extract \/ Filter \/ Prepare \/ TasksHandled \/ Finish)
    /\ \A i \in 1..MaxChapters :
          /\ WF_vars(SerialStart(i))
          /\ WF_vars(Collect(i))
          /\ WF_vars(PoolStart(i))
          /\ WF_vars(WorkerCallOk(i) \/ WorkerCallFail(i))
          /\ WF_vars(WorkerWake(i))
          /\ WF_vars(WorkerTag(i))

SpecLive == InitMain /\ [][NextMain]_vars /\ MainFairness

SpecSanitize == InitS /\ [][NextSanitize]_vars

SpecUnit == InitU /\ [][NextUnit]_vars


(***************************************************************************)
(* Properties of extract_chapters.                                         *)
(***************************************************************************)
\* number of chapters of kind k that document u contributed
Count(u, k) ==
    Cardinality({i \in DOMAIN chapters : chapters[i].unit = u /\ chapters[i].kind = k})

Occurrences(u) == Cardinality({i \in DOMAIN spine_order : spine_order[i] = u})

\* C6: the order fields of the chapters are unique and strictly increasing in
\* list order and start at 0, at every point of extract_chapters and so in
\* the list it returns.
C6_OrderStrictlyIncreasing ==
    /\ chapters # <<>> => chapters[1].order = 0
    /\ \A i, j \in DOMAIN chapters : i < j => chapters[i].order < chapters[j].order

\* C6 witness: extract_chapters has returned at least three chapters, one of
\* them a heading section, after skipping a repeated document.
C6_Witness ==
    /\ xpc = "done" /\ Len(chapters) >= 3
    /\ \E i \in DOMAIN chapters : chapters[i].kind = "section"
    /\ \E i \in DOMAIN chapters : chapters[i].kind = "whole"
    /\ \E k \in DOMAIN log : log[k].skipped

\* C7 (as claimed): with split_on configured, every processed document whose
\* heading split emitted no chapter is emitted as exactly one whole-unit
\* chapter, and a document whose split emitted a chapter has no whole-unit
\* chapter.
C7_FallbackExactlyWhenNoSection ==
    split_on # {} =>
        \A k \in DOMAIN log :
            ~log[k].skipped =>
                /\ Count(log[k].unit, "section") = 0 => Count(log[k].unit, "whole") = 1
                /\ Count(log[k].unit, "section") > 0 => Count(log[k].unit, "whole") = 0

\* C8 (as claimed): no chapter of the list has empty text.
C8_NoEmptyText ==
    \A i \in DOMAIN chapters : chapters[i].text # <<>>

\* C8 (amended): no chapter emitted on the heading-split path has empty text.
C8_NoEmptySection ==
    \A i \in DOMAIN chapters : chapters[i].kind = "section" => chapters[i].text # <<>>

\* C8 witness: the returned list holds a heading section next to a
\* whole-unit chapter whose text is empty.
C8_Witness ==
    /\ xpc = "done"
    /\ \E i \in DOMAIN chapters : chapters[i].kind = "section"
    /\ \E i \in DOMAIN chapters : chapters[i].kind = "whole" /\ chapters[i].text = <<>>

\* C9 (as claimed): once the walk has passed the second occurrence of a
\* document that the reading order lists more than once, the document has
\* yielded exactly one whole-unit chapter or one group of heading sections.
C9_RepeatedUnitYieldsOne ==
    \A k \in DOMAIN log :
        log[k].skipped /\ log[k].unit \in seen =>
            \/ Count(log[k].unit, "whole") = 1 /\ Count(log[k].unit, "section") = 0
            \/ /\ Count(log[k].unit, "whole") = 0
               /\ \E a, b \in DOMAIN chapters :
                    /\ a <= b
                    /\ \A i \in DOMAIN chapters :
                         (chapters[i].unit = log[k].unit) <=> (a <= i /\ i <= b)

\* the chapters that the walk of the reading order emitted
WalkChapters == {i \in DOMAIN chapters : chapters[i].kind # "raw"}

\* C11: when the walk of the reading order has emitted no chapter, the list
\* extract_chapters returns holds exactly one chapter per document of the
\* collection, in collection order, with orders 0..n-1, none of them a heading
\* section whatever split_on is; when the walk has processed a document it
\* has emitted a chapter, and the returned list holds no chapter of the raw
\* collection loop.
C11_RawFallback ==
    /\ (\E k \in DOMAIN log : ~log[k].skipped) => WalkChapters # {}
    /\ xpc \in {"fallback", "done"} /\ WalkChapters # {} =>
          xpc = "done" /\ WalkChapters = DOMAIN chapters
    /\ xpc = "fallback" =>
          /\ Len(chapters) = pos - 1
          /\ \A k \in DOMAIN chapters : chapters[k].kind = "raw"
    /\ xpc = "done" /\ WalkChapters = {} =>
          /\ Len(chapters) = ndocs
          /\ \A k \in DOMAIN chapters :
                /\ chapters[k].kind = "raw"
                /\ chapters[k].unit = k
                /\ chapters[k].order = k - 1

\* C11 witness: split_on is configured, the reading order is not empty but
\* none of its references resolves, and the two documents of the collection
\* are returned as two chapters, the first one a document with an h1 heading
\* and text.
C11_Witness ==
    /\ xpc = "done" /\ split_on # {} /\ spine # <<>> /\ spine_order = <<>>
    /\ ndocs = 2 /\ Len(chapters) = 2
    /\ chapters[1].kind = "raw" /\ chapters[1].title = <<"heading", 1>>
    /\ chapters[1].text # <<>>

\* the words of the text nodes of a body, at the top level and in a <div>
TextWords(body) ==
    ({body[i].word : i \in {k \in DOMAIN body : body[k].tag = "text"}}
     \cup UNION {{body[i].kids[j].word :
                     j \in {k \in DOMAIN body[i].kids : body[i].kids[k].tag = "text"}} :
                 i \in DOMAIN body}) \ {0}

\* the nodes in front of position p in document order
NodesBefore(body, p) ==
    SubSeq(body, 1, p[1] - 1)
    \o (IF Len(p) = 1 THEN <<>> ELSE SubSeq(body[p[1]].kids, 1, p[2] - 1))

\* the document has a split_on heading and no text in front of the first one
NoLeadingContent(body, tags) ==
    /\ find_all(body, tags) # <<>>
    /\ TextWords(NodesBefore(body, find_all(body, tags)[1])) = {}

\* how often word w is in the texts of the chapters cs
WordCount(w, cs) ==
    Cardinality({ck \in UNION {{<<c, k>> : k \in DOMAIN cs[c].text} : c \in DOMAIN cs} :
                    cs[ck[1]].text[ck[2]] = w})

\* C18 (as claimed): for a document with a split_on heading and no text in
\* front of the first one, every word of a text node of the document is in
\* the text of the chapters emitted for the document exactly once, wherever
\* the headings sit in the tree.
C18_SplitDropsNothing ==
    (upc = "done" /\ NoLeadingContent(ubody, utags)) =>
        \A w \in TextWords(ubody) : WordCount(w, uchapters) = 1

(***************************************************************************)
(* Properties of synthesize_with_retry.                                    *)
(***************************************************************************)
RECURSIVE SumSeq(_)
SumSeq(q) == IF q = <<>> THEN 0 ELSE Head(q) + SumSeq(Tail(q))

RECURSIVE SumBackoff(_, _)
SumBackoff(wait, k) == IF k = 0 THEN 0 ELSE SumBackoff(wait, k - 1) + wait * (2 ^ (k - 1))

\* C3: when the backend fails its first k attempts, k < max_retries, and then
\* succeeds, synthesize_with_retry has not raised, it returns after exactly
\* k + 1 backend calls, the sleeps are retry_wait * 2^(i-1) for i = 1..k in
\* that order, and the total wait is their sum.  (attempt counts the
\* failures.)
C3_RetryBackoff ==
    /\ (rpc = "raised" => attempt > max_retries)
    /\ (rpc = "returned" /\ attempt < max_retries) =>
          /\ calls = attempt + 1
          /\ sleeps = [i \in 1..attempt |-> retry_wait * (2 ^ (i - 1))]
          /\ SumSeq(sleeps) = SumBackoff(retry_wait, attempt)

\* C3 witness: success after two failures with a non-zero wait.
C3_Witness ==
    rpc = "returned" /\ attempt = 2 /\ attempt < max_retries /\ retry_wait = 2

(***************************************************************************)
(* Properties of main.                                                     *)
(***************************************************************************)
Prepared == pc \in {"pool", "serial", "finish"} \/ (pc = "exit" /\ exit_code \in {0, 4})

\* the chapters of the book with at least --min-chapter-chars characters
LongEnough == SelectSeq(args.book, LAMBDA c : c.text_len >= args.min_chapter_chars)

\* how many chapters are left after the three filters, for start, limit >= 0
Survivors ==
    LET afterStart == IF Len(LongEnough) > args.start THEN Len(LongEnough) - args.start
                      ELSE 0
    IN  IF args.limit = None \/ args.limit[1] > afterStart THEN afterStart
        ELSE args.limit[1]

DonePaths == {TaskOf(i).out_path : i \in {j \in TaskIdxs : fut[j].st = "done"}}

FailedPaths == {TaskOf(i).out_path : i \in {j \in TaskIdxs : fut[j].st = "failed"}}

InSeq(x, q) == \E k \in DOMAIN q : q[k] = x

\* C1 (as claimed): the playlist lists the written files in increasing track
\* number (idx) order.
C1_PlaylistInTrackOrder ==
    playlist # NoPlaylist =>
        \A a, b \in DOMAIN playlist : a < b => playlist[a].idx < playlist[b].idx

\* C2: when a chapter has failed permanently and the run is over, every task
\* was attempted and has settled, a failed task made max_retries + 1 backend
\* calls, no failed path is in the written list or the playlist, the written
\* list holds as many paths as there are pre-existing and successfully
\* synthesized chapters, and the exit code is 0 when it holds at least one.
C2_FailureDoesNotAbortSiblings ==
    (pc = "exit" /\ exit_code \in {0, 4} /\ FailedPaths # {}) =>
        /\ \A i \in TaskIdxs : Settled(i) /\ ncalls[i] >= 1
        /\ \A i \in TaskIdxs : fut[i].st = "failed" => ncalls[i] = args.max_retries + 1
        /\ \A p \in FailedPaths :
              ~InSeq(p, written) /\ (playlist # NoPlaylist => ~InSeq(p, playlist))
        /\ Len(written) = Cardinality(preexisting) + Cardinality(DonePaths)
        /\ (Len(written) >= 1 => exit_code = 0 /\ playlist = written)

\* C2 witness: a thread-pool run of three chapters over, the first file
\* pre-existing, the second chapter failed, the third synthesized after it.
C2_Witness ==
    /\ pc = "exit" /\ exit_code = 0 /\ args.jobs > 1 /\ total = 3
    /\ \E p \in preexisting : p.idx = 1
    /\ 2 \in TaskIdxs /\ fut[2].st = "failed"
    /\ 3 \in TaskIdxs /\ fut[3].st = "done"
    /\ Len(written) = 2

\* C4: a chapter whose destination file exists when the tasks are prepared
\* gets no task, no backend call and no tag write, and its path is in the
\* written list and, once written, in the playlist.  The files a previous
\* run left are such files.
C4_ExistingFileNotSynthesized ==
    Prepared =>
        \A i \in DOMAIN mchapters :
            OutPath(mchapters[i], i) \in preexisting =>
                /\ i \notin TaskIdxs
                /\ ncalls[i] = 0
                /\ InSeq(OutPath(mchapters[i], i), written)
                /\ pc = "exit" => playlist # NoPlaylist /\ InSeq(OutPath(mchapters[i], i), playlist)

\* C4 witness: a run is over in which one file existed and another chapter
\* was synthesized and tagged.
C4_Witness ==
    /\ pc = "exit" /\ exit_code = 0
    /\ preexisting # {}
    /\ \E i \in TaskIdxs : fut[i].st = "done" /\ fut[i].tag = "written" /\ ncalls[i] >= 1

\* C5: the exit code is 1 when the input does not exist, else 2 when no
\* chapter was extracted, else 3 when no chapter survives the filtering,
\* else 4 when the written list is empty after every task has settled, which
\* is exactly when no destination file existed and every task failed, and 0
\* otherwise; the process has no exit code before it exits.
C5_ExitCodes ==
    /\ pc # "exit" => exit_code = -1
    /\ pc = "exit" =>
         exit_code =
            IF ~args.epub_exists THEN 1
            ELSE IF args.book = <<>> THEN 2
            ELSE IF Survivors = 0 THEN 3
            ELSE IF preexisting = {} /\ \A i \in TaskIdxs : fut[i].st = "failed" THEN 4
            ELSE 0
    /\ (pc = "exit" /\ exit_code \in {0, 4}) =>
         /\ \A i \in TaskIdxs : Settled(i)
         /\ (exit_code = 4) = (written = <<>>)

\* C5 witness: a thread-pool run ends with exit code 4 after two tasks
\* failed permanently.
C5_Witness ==
    /\ pc = "exit" /\ exit_code = 4 /\ args.jobs > 1
    /\ Cardinality(TaskIdxs) >= 2

\* C10: the chapters main renders are those of at least min_chapter_chars
\* characters, without the first `start` of them, cut to at most `limit`, in
\* the order of the book; the track numbers of the tasks and of the existing
\* files are together 1..n, each once, track idx being survivor number idx,
\* whatever the order fields and whichever files exist.
C10_FilterOrderAndDenseTracks ==
    /\ pc = "filter" => mchapters = args.book
    /\ (pc = "prepare" \/ Prepared) =>
          /\ Len(mchapters) = Survivors
          /\ Survivors >= 1
          /\ \A j \in 1..Survivors : mchapters[j] = LongEnough[args.start + j]
    /\ Prepared =>
          /\ total = Survivors
          /\ TaskIdxs \cup {written[k].idx : k \in DOMAIN written} = 1..total
          /\ Len(tasks) + Len(written) = total
          /\ \A k \in DOMAIN tasks :
                /\ tasks[k].text_len = mchapters[tasks[k].idx].text_len
                /\ tasks[k].out_path = OutPath(mchapters[tasks[k].idx], tasks[k].idx)
          /\ \A k \in DOMAIN written :
                written[k] = OutPath(mchapters[written[k].idx], written[k].idx)

\* C10 witness: tasks prepared after the first chapter was dropped as too
\* short, the first survivor was skipped by --start and the last one cut by
\* --limit; track 1 is the chapter of order 2 and has a task.
C10_Witness ==
    /\ pc = "serial"
    /\ Len(args.book) = 4 /\ Len(LongEnough) = 3
    /\ args.book[1].text_len < args.min_chapter_chars
    /\ args.start = 1 /\ args.limit = Some(1)
    /\ total = 1 /\ mchapters[1].order = 2
    /\ Len(tasks) = 1 /\ tasks[1].idx = 1

\* C12: the playlist is written and the run ends only after every task has
\* settled and its result has been handled: while a worker is queued, in the
\* backend, in a backoff sleep or tagging, main is still in its task loop
\* and there is no playlist.
C12_PlaylistAfterAllSettled ==
    /\ pc \in {"pool", "serial"} => playlist = NoPlaylist
    /\ (pc = "finish" \/ (pc = "exit" /\ exit_code \in {0, 4})) =>
          \A i \in TaskIdxs : Settled(i) /\ i \in collected
    /\ playlist # NoPlaylist =>
          /\ pc = "exit" /\ exit_code = 0
          /\ \A i \in TaskIdxs : Settled(i)

\* C12 witness: a thread-pool run has written the playlist after one task
\* failed for good behind a backoff sleep and another one succeeded.
C12_Witness ==
    /\ playlist # NoPlaylist /\ args.jobs > 1 /\ args.max_retries >= 1
    /\ \E i \in TaskIdxs : fut[i].st = "failed" /\ fut[i].attempt = args.max_retries + 1
    /\ \E i \in TaskIdxs : fut[i].st = "done"

\* C13: in the thread pool at most min(jobs, number of tasks) workers are
\* executing at any time; in the serial loop at most one worker is executing,
\* and a task has left the queue only when every task of a smaller track
\* number has settled and been handled.
C13_BoundedConcurrency ==
    /\ pc = "pool" =>
          /\ args.jobs > 1 /\ Len(tasks) >= 1
          /\ Cardinality({i \in TaskIdxs : Active(i)}) <= args.jobs
          /\ Cardinality({i \in TaskIdxs : Active(i)}) <= Len(tasks)
    /\ pc = "serial" =>
          /\ args.jobs <= 1 \/ tasks = <<>>
          /\ Cardinality({i \in TaskIdxs : Active(i)}) <= 1
          /\ \A i, j \in TaskIdxs :
                i < j /\ fut[j].st # "queued" => Settled(i) /\ i \in collected

\* C13 witness: a pool of two threads has two of three tasks executing and
\* the third one waiting.
C13_Witness ==
    /\ pc = "pool" /\ args.jobs = 2 /\ Len(tasks) = 3
    /\ Cardinality({i \in TaskIdxs : Active(i)}) = 2
    /\ \E i \in TaskIdxs : fut[i].st = "queued"

\* C14: a task whose tag write failed is a successful task: its worker has
\* returned, the backend was not called again after the call that succeeded
\* (one call more than failures), and once its result is handled its path
\* is in the written list and, at the end of the run, in the playlist of a
\* run that exits with 0.
C14_TagFailureIsNotFailure ==
    \A i \in TaskIdxs :
        fut[i].tag = "failed" =>
            /\ fut[i].st = "done"
            /\ ncalls[i] = fut[i].attempt + 1
            /\ i \in collected => InSeq(TaskOf(i).out_path, written)
            /\ pc = "exit" =>
                  /\ exit_code = 0
                  /\ playlist # NoPlaylist /\ InSeq(TaskOf(i).out_path, playlist)

\* C14 witness: a run is over in which the only task was synthesized at the
\* second attempt and its tags could not be written.
C14_Witness ==
    /\ pc = "exit" /\ Len(tasks) = 1 /\ preexisting = {}
    /\ \E i \in TaskIdxs : fut[i].tag = "failed" /\ fut[i].attempt = 1

\* C16: a worker makes at most max_retries + 1 backend calls; it sleeps only
\* when a retry is left, and a task that failed for good has made exactly
\* max_retries + 1 calls, all failed; and under fair scheduling every task
\* eventually settles as done or failed, whatever the other tasks do, and
\* the run ends.
C16_RetryTerminates ==
    /\ [](\A i \in DOMAIN ncalls : ncalls[i] <= args.max_retries + 1)
    /\ [](\A i \in TaskIdxs :
            /\ fut[i].st = "sleeping" => fut[i].attempt <= args.max_retries
            /\ fut[i].st = "failed" =>
                  fut[i].attempt = args.max_retries + 1 /\ ncalls[i] = fut[i].attempt)
    /\ \A i \in 1..MaxChapters :
          [](i \in TaskIdxs => <>(i \in TaskIdxs /\ Settled(i)))
    /\ <>(pc = "exit")

\* C16 witness: a run of three tasks on two threads is over; the first task
\* failed at every attempt, the two others were synthesized.
C16_Witness ==
    /\ pc = "exit" /\ args.jobs = 2 /\ args.max_retries = 1 /\ Len(tasks) = 3
    /\ fut[1].st = "failed" /\ ncalls[1] = 2
    /\ fut[2].st = "done" /\ fut[3].st = "done"

\* how often x is in q
CountIn(x, q) == Cardinality({k \in DOMAIN q : q[k] = x})

\* C17: the written list never holds a path twice and holds nothing but
\* pre-existing paths and the paths of tasks that are done and whose result
\* the main thread has handled; once every task is handled it holds the path
\* of every pre-existing chapter and of every task that succeeded, each
\* exactly once.
C17_WrittenExact ==
    Prepared =>
        /\ \A k \in DOMAIN written : CountIn(written[k], written) = 1
        /\ \A p \in preexisting : CountIn(p, written) = 1
        /\ \A i \in TaskIdxs :
              InSeq(TaskOf(i).out_path, written) <=> (fut[i].st = "done" /\ i \in collected)
        /\ \A k \in DOMAIN written :
              written[k] \in preexisting \cup {TaskOf(i).out_path : i \in TaskIdxs}
        /\ pc \in {"finish", "exit"} =>
              /\ {written[k] : k \in DOMAIN written} = preexisting \cup DonePaths
              /\ Len(written) = Cardinality(preexisting \cup DonePaths)

\* C17 witness: a thread-pool run over three chapters is over; the first
\* file existed, and of the two tasks the later one finished first.
C17_Witness ==
    /\ pc = "exit" /\ args.jobs > 1 /\ total = 3 /\ Len(written) = 3
    /\ written[1].idx = 1 /\ written[1] \in preexisting
    /\ written[2].idx = 3 /\ written[3].idx = 2

\* C19 (as claimed): at the end of a run a destination file exists only if
\* it existed when the tasks were prepared or its task succeeded; a task that
\* failed for good leaves no file.
C19_NoFileOfFailedTask ==
    (pc = "exit" /\ exit_code \in {0, 4}) =>
        /\ files \subseteq preexisting \cup DonePaths
        /\ FailedPaths \cap files = {}

\* C20: the tasks of a run have pairwise distinct destination paths and file
\* names, none of them that of a file that existed, also where two chapters
\* have the same sanitized title; so two workers that are executing never
\* work on the same file.
C20_DistinctPaths ==
    Prepared =>
        /\ \A k, l \in DOMAIN tasks :
              k # l => /\ tasks[k].out_path # tasks[l].out_path
                       /\ FileName(tasks[k].out_path) # FileName(tasks[l].out_path)
        /\ \A k \in DOMAIN tasks :
              /\ SubSeq(FileName(tasks[k].out_path), 1, 3) = Pad3(tasks[k].idx)
              /\ \A p \in preexisting : FileName(p) # FileName(tasks[k].out_path)
        /\ \A i, j \in TaskIdxs :
              i # j /\ Active(i) /\ Active(j) =>
                  FileName(TaskOf(i).out_path) # FileName(TaskOf(j).out_path)

\* C20 witness: two workers of the pool are in the backend at the same time
\* for two chapters with the same sanitized title.
C20_Witness ==
    /\ pc = "pool"
    /\ \E i, j \in TaskIdxs :
          /\ i # j /\ fut[i].st = "running" /\ fut[j].st = "running"
          /\ TaskOf(i).out_path.name = TaskOf(j).out_path.name

(***************************************************************************)
(* Properties of sanitize_filename.                                        *)
(***************************************************************************)
\* C15: for every name, sanitize_filename returns a string that is not
\* empty, has at most 150 characters and none of the characters
\* \ / : * ? " < > |, and for a name that is empty or whitespace only it
\* returns "untitled".
C15_SanitizedName ==
    spc = "returned" =>
        /\ sout # <<>>
        /\ Len(sout) <= 150
        /\ \A i \in DOMAIN sout :
              sout[i] \notin {"\\", "/", ":", "*", "?", "\"", "<", ">", "|"}
        /\ (\A i \in DOMAIN sname : sname[i] \in {" ", "\t", "\n"}) =>
              sout = <<"u", "n", "t", "i", "t", "l", "e", "d">>

\* C15 witness: a name of more than 150 characters with a forbidden
\* character and whitespace at both ends was cut to 150 characters.
C15_Witness ==
    /\ spc = "returned" /\ Len(sname) > 150 /\ Len(sout) = 150
    /\ sname[1] = " " /\ sname[2] = "/" /\ sname[Len(sname)] = "\t"

=============================================================================
